---- MODULE Spec2Model ----
(***************************************************************************)
(* A model of nextcloud-deck-cli.py: one run of main() (configuration      *)
(* check, the single fetch, build_grouped_model, the selected renderer)    *)
(* and its pure functions (build_grouped_model, parse_duedate,             *)
(* format_duedate, the four text renderers and the JSON dump).             *)
(*                                                                         *)
(* Python values are represented as follows.                               *)
(*   dict            a function whose DOMAIN is the set of keys present    *)
(*                   (d.get(k) on an absent key gives None)                *)
(*   None / a value  None == <<>>, Some(v) == <<v>>                        *)
(*   str             a TLA+ string; the characters the lexer does not      *)
(*                   accept (ESC, emoji, the em dash) are written as the   *)
(*                   ASCII stand-ins named next to their use               *)
(*   an exception    Raised(e); a normal return Ok(v)                      *)
(***************************************************************************)
EXTENDS Integers, Sequences, FiniteSets, TLC

VARIABLES
    pc,        \* position of main(): "check", "fetch", "build", "render", "exit", or "idle"
    args,      \* the argparse namespace (after parser.parse_args())
    requests,  \* the URLs requested through session.get, in order
    response,  \* what the server or the network answered to the request
    stacks,    \* Ok(body) returned by fetch_stacks, or the idle value
    grouped,   \* the grouped model returned by build_grouped_model
    renderer,  \* which branch of main's output section ran
    stdout,    \* the texts printed to standard output, in order
    stderr,    \* the texts printed to standard error, in order
    status,    \* None while the process runs, Some(exit status) once it has ended
    call,      \* arguments of a direct call of a pure function
    ret        \* its result

vars == <<pc, args, requests, response, stacks, grouped, renderer, stdout, stderr, status, call, ret>>

-----------------------------------------------------------------------------
(* Python values *)

None == <<>>
Some(v) == <<v>>
Raised(e) == [raised |-> e]
Ok(v) == [value |-> v]
IsRaised(r) == "raised" \in DOMAIN r

\* d.get(k): None when the key is absent
Get(d, k) == IF k \in DOMAIN d THEN Some(d[k]) ELSE None
\* d.get(k, default)
GetOr(d, k, default) == IF k \in DOMAIN d THEN d[k] ELSE default
\* (x or y) for an optional sequence / optional string
OrElse(opt, default) == IF opt # None /\ Len(opt[1]) > 0 THEN opt[1] ELSE default

-----------------------------------------------------------------------------
(* str helpers: TLC's Sequences operators Len, Head, Tail, SubSeq and \o    *)
(* act on strings character by character.                                   *)

RECURSIVE Join(_, _)
\* sep.join(parts)
Join(sep, parts) ==
    IF Len(parts) = 0 THEN ""
    ELSE IF Len(parts) = 1 THEN parts[1]
    ELSE parts[1] \o sep \o Join(sep, Tail(parts))

RECURSIVE LStrip(_, _)
\* s.lstrip(chars), chars a set of one-character strings
LStrip(s, chars) ==
    IF Len(s) > 0 /\ Head(s) \in chars THEN LStrip(Tail(s), chars) ELSE s

RECURSIVE RStrip(_, _)
\* s.rstrip(chars)
RStrip(s, chars) ==
    IF Len(s) > 0 /\ SubSeq(s, Len(s), Len(s)) \in chars
    THEN RStrip(SubSeq(s, 1, Len(s) - 1), chars)
    ELSE s

Whitespace == {" ", "\n", "\t", "\r"}
\* s.strip()
Strip(s) == LStrip(RStrip(s, Whitespace), Whitespace)

\* s contains sub
Contains(s, sub) ==
    \E i \in 1..(Len(s) - Len(sub) + 1) : SubSeq(s, i, i + Len(sub) - 1) = sub

UpperToLower ==
    [c \in {"A","B","C","D","E","F","G","H","I","J","K","L","M",
            "N","O","P","Q","R","S","T","U","V","W","X","Y","Z"} |->
        CASE c = "A" -> "a" [] c = "B" -> "b" [] c = "C" -> "c" [] c = "D" -> "d"
          [] c = "E" -> "e" [] c = "F" -> "f" [] c = "G" -> "g" [] c = "H" -> "h"
          [] c = "I" -> "i" [] c = "J" -> "j" [] c = "K" -> "k" [] c = "L" -> "l"
          [] c = "M" -> "m" [] c = "N" -> "n" [] c = "O" -> "o" [] c = "P" -> "p"
          [] c = "Q" -> "q" [] c = "R" -> "r" [] c = "S" -> "s" [] c = "T" -> "t"
          [] c = "U" -> "u" [] c = "V" -> "v" [] c = "W" -> "w" [] c = "X" -> "x"
          [] c = "Y" -> "y" [] c = "Z" -> "z"]

RECURSIVE Lower(_)
\* s.lower() (ASCII)
Lower(s) ==
    IF Len(s) = 0 THEN ""
    ELSE (IF Head(s) \in DOMAIN UpperToLower THEN UpperToLower[Head(s)] ELSE Head(s))
         \o Lower(Tail(s))

RECURSIVE pango_escape(_)
\* html.escape(text, quote=True)
pango_escape(text) ==
    IF Len(text) = 0 THEN ""
    ELSE (CASE Head(text) = "&" -> "&amp;"
            [] Head(text) = "<" -> "&lt;"
            [] Head(text) = ">" -> "&gt;"
            [] Head(text) = "\"" -> "&quot;"
            [] Head(text) = "'" -> "&#x27;"
            [] OTHER -> Head(text))
         \o pango_escape(Tail(text))

\* "%02d" % n, for 0 <= n
Pad2(n) == IF n < 10 THEN "0" \o ToString(n) ELSE ToString(n)
\* "%04d" % n, for 0 <= n
Pad4(n) ==
    IF n < 10 THEN "000" \o ToString(n)
    ELSE IF n < 100 THEN "00" \o ToString(n)
    ELSE IF n < 1000 THEN "0" \o ToString(n)
    ELSE ToString(n)

-----------------------------------------------------------------------------
(* datetime: an instant is [year, month, day, hour, minute, second, tzinfo], *)
(* tzinfo None (naive) or Some(utc offset in minutes).  Sub-second parts are *)
(* not modelled.                                                             *)

SecondsPerDay == 86400
SecondsPerHour == 3600
DaysPerYear == 365
DaysPerMonth == 30

IsLeap(y) == (y % 4 = 0) /\ ((y % 100 # 0) \/ (y % 400 = 0))
DaysInMonth(y, m) ==
    IF m = 2 THEN (IF IsLeap(y) THEN 29 ELSE 28)
    ELSE IF m \in {4, 6, 9, 11} THEN 30 ELSE 31
DaysBeforeYear(y) ==
    LET p == y - 1 IN p * 365 + (p \div 4) - (p \div 100) + (p \div 400)
RECURSIVE DaysBeforeMonth(_, _)
DaysBeforeMonth(y, m) ==
    IF m = 1 THEN 0 ELSE DaysBeforeMonth(y, m - 1) + DaysInMonth(y, m - 1)
\* proleptic Gregorian ordinal, 0001-01-01 is day 1 (date.toordinal)
Ymd2Ord(y, m, d) == DaysBeforeYear(y) + DaysBeforeMonth(y, m) + d

\* the ordinal of the day timestamps count from (TLC's integers are 32 bits wide:
\* seconds are counted from 2000-01-01, which covers the years 1932 to 2068)
EpochOrdinal == Ymd2Ord(2000, 1, 1)

\* seconds from 2000-01-01T00:00:00 UTC to an aware datetime
Timestamp(dt) ==
    (Ymd2Ord(dt.year, dt.month, dt.day) - EpochOrdinal) * SecondsPerDay
    + dt.hour * SecondsPerHour + dt.minute * 60 + dt.second
    - dt.tzinfo[1] * 60

\* the aware datetime with utc offset off (minutes) at timestamp ts
FromTimestamp(ts, off) ==
    LET loc == ts + off * 60
        ord == EpochOrdinal + (loc \div SecondsPerDay)
        sod == loc % SecondsPerDay
        y == CHOOSE yy \in ((ord \div 366) - 1)..((ord \div 365) + 1) :
                 DaysBeforeYear(yy) < ord /\ ord <= DaysBeforeYear(yy + 1)
        m == CHOOSE mm \in 1..12 :
                 /\ DaysBeforeYear(y) + DaysBeforeMonth(y, mm) < ord
                 /\ ord <= DaysBeforeYear(y) + DaysBeforeMonth(y, mm) + DaysInMonth(y, mm)
    IN [year |-> y, month |-> m,
        day |-> ord - DaysBeforeYear(y) - DaysBeforeMonth(y, m),
        hour |-> sod \div SecondsPerHour,
        minute |-> (sod % SecondsPerHour) \div 60,
        second |-> sod % 60,
        tzinfo |-> Some(off)]

\* (a - b).total_seconds() of two aware datetimes
TotalSeconds(a, b) == Timestamp(a) - Timestamp(b)

Digits == {"0", "1", "2", "3", "4", "5", "6", "7", "8", "9"}
DigitValue(c) ==
    CASE c = "0" -> 0 [] c = "1" -> 1 [] c = "2" -> 2 [] c = "3" -> 3 [] c = "4" -> 4
      [] c = "5" -> 5 [] c = "6" -> 6 [] c = "7" -> 7 [] c = "8" -> 8 [] c = "9" -> 9
RECURSIVE ToNat(_)
ToNat(s) ==
    IF Len(s) = 0 THEN 0
    ELSE ToNat(SubSeq(s, 1, Len(s) - 1)) * 10 + DigitValue(SubSeq(s, Len(s), Len(s)))
IsDigits(s) == \A i \in 1..Len(s) : SubSeq(s, i, i) \in Digits
At(s, i) == SubSeq(s, i, i)

(* dateutil.parser.parse on the ISO-8601 forms the Deck API sends and on     *)
(* text that is no date: "YYYY-MM-DDTHH:MM:SS", optionally followed by "Z"   *)
(* or "+HH:MM" / "-HH:MM".  Anything else, and a field out of range, raises  *)
(* ParserError.  (dateutil accepts more layouts than this; the raw values    *)
(* of RawDueDates are all of one of these kinds.)                            *)
DateutilParse(raw) ==
    LET n == Len(raw)
        shape ==
            /\ n \in {19, 20, 25}
            /\ IsDigits(SubSeq(raw, 1, 4)) /\ At(raw, 5) = "-"
            /\ IsDigits(SubSeq(raw, 6, 7)) /\ At(raw, 8) = "-"
            /\ IsDigits(SubSeq(raw, 9, 10)) /\ At(raw, 11) = "T"
            /\ IsDigits(SubSeq(raw, 12, 13)) /\ At(raw, 14) = ":"
            /\ IsDigits(SubSeq(raw, 15, 16)) /\ At(raw, 17) = ":"
            /\ IsDigits(SubSeq(raw, 18, 19))
            /\ (n = 20 => At(raw, 20) = "Z")
            /\ (n = 25 => /\ At(raw, 20) \in {"+", "-"}
                          /\ IsDigits(SubSeq(raw, 21, 22)) /\ At(raw, 23) = ":"
                          /\ IsDigits(SubSeq(raw, 24, 25)))
        y == ToNat(SubSeq(raw, 1, 4))
        mo == ToNat(SubSeq(raw, 6, 7))
        d == ToNat(SubSeq(raw, 9, 10))
        h == ToNat(SubSeq(raw, 12, 13))
        mi == ToNat(SubSeq(raw, 15, 16))
        s == ToNat(SubSeq(raw, 18, 19))
        offmin == ToNat(SubSeq(raw, 21, 22)) * 60 + ToNat(SubSeq(raw, 24, 25))
        tz == IF n = 19 THEN None
              ELSE IF n = 20 THEN Some(0)
              ELSE IF At(raw, 20) = "-" THEN Some(0 - offmin) ELSE Some(offmin)
    IN IF ~shape THEN Raised("ParserError")
       ELSE IF ~(y >= 1 /\ mo \in 1..12 /\ d >= 1 /\ d <= DaysInMonth(y, mo)
                 /\ h <= 23 /\ mi <= 59 /\ s <= 59)
       THEN Raised("ParserError")
       ELSE Ok([year |-> y, month |-> mo, day |-> d, hour |-> h, minute |-> mi,
                second |-> s, tzinfo |-> tz])

\* parse_duedate without its try/except: the parser's error propagates
parse_duedate_unguarded(raw) ==
    IF raw = None \/ raw = Some("") THEN Ok(None)
    ELSE LET r == DateutilParse(raw[1])
         IN IF IsRaised(r) THEN r
            ELSE Ok(Some(IF r.value.tzinfo = None
                         THEN [r.value EXCEPT !.tzinfo = Some(0)]
                         ELSE r.value))

\* parse_duedate(raw), raw None or Some(str): Ok(None) or Ok(Some(datetime))
parse_duedate(raw) ==
    IF raw = None \/ raw = Some("") THEN Ok(None)
    ELSE LET r == DateutilParse(raw[1])
         IN IF IsRaised(r) THEN Ok(None)
            ELSE Ok(Some(IF r.value.tzinfo = None
                         THEN [r.value EXCEPT !.tzinfo = Some(0)]
                         ELSE r.value))

-----------------------------------------------------------------------------
(* The normalizer *)

\* fmt_user(u), u None or Some(dict)
fmt_user(u) ==
    IF u = None \/ DOMAIN u[1] = {} THEN ""
    ELSE OrElse(Get(u[1], "displayname"), OrElse(Get(u[1], "primaryKey"), ""))

\* the sort key with an absent order sorting before every other
OrderKey_absent_first(x) == GetOr(x, "order", 0 - 1)

\* the sort key lambda x: x.get("order", 0)
OrderKey(x) == GetOr(x, "order", 0)

RECURSIVE InsertByOrder(_, _)
\* sorted with x placed behind every element whose key is not greater
InsertByOrder(sorted, x) ==
    IF Len(sorted) = 0 THEN <<x>>
    ELSE IF OrderKey(x) < OrderKey(Head(sorted)) THEN <<x>> \o sorted
    ELSE <<Head(sorted)>> \o InsertByOrder(Tail(sorted), x)

RECURSIVE SortedByOrder(_)
\* sorted(seq, key=lambda x: x.get("order", 0)): ascending, and stable
SortedByOrder(seq) ==
    IF Len(seq) = 0 THEN <<>>
    ELSE InsertByOrder(SortedByOrder(SubSeq(seq, 1, Len(seq) - 1)), seq[Len(seq)])

RECURSIVE NotArchived(_)
\* [c for c in cards if not c.get("archived", False)]
NotArchived(cards) ==
    IF Len(cards) = 0 THEN <<>>
    ELSE (IF ~GetOr(Head(cards), "archived", FALSE) THEN <<Head(cards)>> ELSE <<>>)
         \o NotArchived(Tail(cards))

RECURSIVE Assignees(_)
\* [fmt_user(u) for u in users if fmt_user(u)]
Assignees(users) ==
    IF Len(users) = 0 THEN <<>>
    ELSE (IF fmt_user(Some(Head(users))) # "" THEN <<fmt_user(Some(Head(users)))>> ELSE <<>>)
         \o Assignees(Tail(users))

RECURSIVE LabelTitles(_)
\* [lb.get("title", "") for lb in labels if lb.get("title")]
LabelTitles(labels) ==
    IF Len(labels) = 0 THEN <<>>
    ELSE (IF OrElse(Get(Head(labels), "title"), "") # ""
          THEN <<GetOr(Head(labels), "title", "")>> ELSE <<>>)
         \o LabelTitles(Tail(labels))

\* the dict that build_grouped_model makes of one raw card, due the parsed due date
CardModel(c, due) ==
    [id |-> Get(c, "id"),
     title |-> Get(c, "title"),
     order |-> Get(c, "order"),
     archived |-> GetOr(c, "archived", FALSE),
     duedate |-> due,
     owner |-> LET o == fmt_user(Get(c, "owner")) IN IF o # "" THEN Some(o) ELSE None,
     assignees |-> Assignees(GetOr(c, "assignedUsers", <<>>)),
     labels |-> LabelTitles(GetOr(c, "labels", <<>>))]

\* the cards of raw stack s in output order, archived cards never dropped
KeptCards_unfiltered(s, include_archived) ==
    SortedByOrder(GetOr(s, "cards", <<>>))

\* the cards of raw stack s that build_grouped_model keeps, in output order
KeptCards(s, include_archived) ==
    LET cards == GetOr(s, "cards", <<>>)
    IN SortedByOrder(IF ~include_archived THEN NotArchived(cards) ELSE cards)

RECURSIVE BuildCards(_)
\* the list of card dicts of the kept cards; the first exception raised ends it
BuildCards(cards) ==
    IF Len(cards) = 0 THEN Ok(<<>>)
    ELSE LET due == parse_duedate(Get(Head(cards), "duedate"))
         IN IF IsRaised(due) THEN due
            ELSE LET rest == BuildCards(Tail(cards))
                 IN IF IsRaised(rest) THEN rest
                    ELSE Ok(<<CardModel(Head(cards), due.value)>> \o rest.value)

RECURSIVE BuildBlocks(_, _)
\* the body of build_grouped_model's loop, over the stacks in sorted order
BuildBlocks(ss, include_archived) ==
    IF Len(ss) = 0 THEN Ok(<<>>)
    ELSE LET s == Head(ss)
             cards == BuildCards(KeptCards(s, include_archived))
         IN IF IsRaised(cards) THEN cards
            ELSE LET rest == BuildBlocks(Tail(ss), include_archived)
                 IN IF IsRaised(rest) THEN rest
                    ELSE Ok(<<[stack |-> [id |-> Get(s, "id"),
                                          title |-> Get(s, "title"),
                                          order |-> Get(s, "order")],
                               cards |-> cards.value]>> \o rest.value)

\* build_grouped_model(stacks, include_archived): Ok(grouped), or the exception
\* that building a card raised
build_grouped_model(rawstacks, include_archived) ==
    BuildBlocks(SortedByOrder(rawstacks), include_archived)

-----------------------------------------------------------------------------
(* The date formatter *)

\* the quotient a / b rounded up (math.ceil) and down (math.floor), b > 0
CeilDiv(a, b) == 0 - ((0 - a) \div b)
FloorDiv(a, b) == a \div b
Abs(n) == IF n < 0 THEN 0 - n ELSE n
\* int(x) of the quotient a / b: truncation towards zero
TruncDiv(a, b) == IF a < 0 THEN 0 - ((0 - a) \div b) ELSE a \div b

\* the utc offset off (minutes) as isoformat writes it
IsoOffset(off) ==
    (IF off < 0 THEN "-" ELSE "+") \o Pad2(Abs(off) \div 60) \o ":" \o Pad2(Abs(off) % 60)

\* dt.isoformat() of an aware datetime without microseconds
IsoFormat(dt) ==
    Pad4(dt.year) \o "-" \o Pad2(dt.month) \o "-" \o Pad2(dt.day) \o "T"
    \o Pad2(dt.hour) \o ":" \o Pad2(dt.minute) \o ":" \o Pad2(dt.second)
    \o IsoOffset(dt.tzinfo[1])

\* dt.strftime("%Y-%m-%d %H:%M")
StrfMinutes(dt) ==
    Pad4(dt.year) \o "-" \o Pad2(dt.month) \o "-" \o Pad2(dt.day) \o " "
    \o Pad2(dt.hour) \o ":" \o Pad2(dt.minute)

\* dt.astimezone() on a machine whose local utc offset is tz (minutes);
\* OverflowError when the local date falls outside the years 1..9999
AsTimezone(dt, tz) ==
    LET ord == EpochOrdinal + ((Timestamp(dt) + tz * 60) \div SecondsPerDay)
    IN IF ord < 1 \/ ord > DaysBeforeYear(10000)
       THEN Raised("OverflowError")
       ELSE Ok(FromTimestamp(Timestamp(dt), tz))

\* the relative branch with the sub-day case left out
RelativeText_no_hours(diff) ==
    IF diff > DaysPerYear * SecondsPerDay
    THEN "in " \o ToString(CeilDiv(diff, DaysPerYear * SecondsPerDay)) \o " year(s)"
    ELSE IF diff > DaysPerMonth * SecondsPerDay
    THEN "in " \o ToString(CeilDiv(diff, DaysPerMonth * SecondsPerDay)) \o " month(s)"
    ELSE IF diff > 0
    THEN "in " \o ToString(CeilDiv(diff, SecondsPerDay)) \o " days"
    ELSE IF diff < 0 - DaysPerYear * SecondsPerDay
    THEN ToString(Abs(CeilDiv(diff, DaysPerYear * SecondsPerDay))) \o " year(s) ago"
    ELSE IF diff < 0 - DaysPerMonth * SecondsPerDay
    THEN ToString(Abs(CeilDiv(diff, DaysPerMonth * SecondsPerDay))) \o " month(s) ago"
    ELSE ToString(Abs(FloorDiv(diff, SecondsPerDay))) \o " days ago"

(* The relative branch of format_duedate, for diff = (dt - now).total_seconds() *)
(* in whole seconds.  days = diff / 86400 and hours = diff / 3600 are floats    *)
(* in the code; here every comparison and rounding is made on the integer      *)
(* diff, which gives the same result for every whole number of seconds.        *)
RelativeText(diff) ==
    IF Abs(diff) < SecondsPerDay
    THEN IF diff > 0
         THEN "in " \o ToString(TruncDiv(diff, SecondsPerHour)) \o " hour(s)"
         ELSE ToString(TruncDiv(Abs(diff), SecondsPerHour)) \o "hour(s) ago"
    ELSE IF diff > DaysPerYear * SecondsPerDay
    THEN "in " \o ToString(CeilDiv(diff, DaysPerYear * SecondsPerDay)) \o " year(s)"
    ELSE IF diff > DaysPerMonth * SecondsPerDay
    THEN "in " \o ToString(CeilDiv(diff, DaysPerMonth * SecondsPerDay)) \o " month(s)"
    ELSE IF diff > 0
    THEN "in " \o ToString(CeilDiv(diff, SecondsPerDay)) \o " days"
    ELSE IF diff < 0 - DaysPerYear * SecondsPerDay
    THEN ToString(Abs(CeilDiv(diff, DaysPerYear * SecondsPerDay))) \o " year(s) ago"
    ELSE IF diff < 0 - DaysPerMonth * SecondsPerDay
    THEN ToString(Abs(CeilDiv(diff, DaysPerMonth * SecondsPerDay))) \o " month(s) ago"
    ELSE ToString(Abs(FloorDiv(diff, SecondsPerDay))) \o " days ago"

\* format_duedate(dt, style), dt None or Some(aware datetime); now is what
\* datetime.now(timezone.utc) returns and tz the machine's local utc offset
format_duedate(dt, style, now, tz) ==
    IF dt = None THEN ""
    ELSE IF style = "iso" THEN IsoFormat(dt[1])
    ELSE IF style = "local"
    THEN LET loc == AsTimezone(dt[1], tz)
         IN IF IsRaised(loc) THEN StrfMinutes(dt[1]) ELSE StrfMinutes(loc.value)
    ELSE IF style = "relative" THEN RelativeText(TotalSeconds(dt[1], now))
    ELSE IsoFormat(dt[1])

-----------------------------------------------------------------------------
(* The renderers.  Each takes the grouped model, show_owner and the date     *)
(* style, and the two things format_duedate reads from the machine: now, the *)
(* clock (read once for the whole rendering), and tz, the local utc offset.  *)
(* The result is Ok(text) or the exception raised.                           *)

RECURSIVE Flatten(_)
\* the concatenation of a sequence of sequences
Flatten(ss) == IF Len(ss) = 0 THEN <<>> ELSE Head(ss) \o Flatten(Tail(ss))

\* str(x) of an optional int, as an f-string writes it
PyStr(opt) == IF opt = None THEN "None" ELSE ToString(opt[1])

\* st.get('title') or f"List {st.get('id')}"
HeaderText(st) == OrElse(st.title, "List " \o PyStr(st.id))

\* c['title'] or '(untitled)'
CardTitle(c) == OrElse(c.title, "(untitled)")

\* the metadata fragments of card c in the fixed order labels, owner, assignees,
\* due date, archived.  t is the renderer's templates: for each fragment the
\* text before and after the value, the archived fragment, and whether the
\* value goes through pango_escape; due is the due date as the renderer
\* writes it
MetaBits(c, show_owner, due, t) ==
    LET val(x) == IF t.escape THEN pango_escape(x) ELSE x
    IN (IF Len(c.labels) > 0
        THEN <<t.labels[1] \o val(Join(", ", c.labels)) \o t.labels[2]>> ELSE <<>>)
       \o (IF show_owner /\ c.owner # None
           THEN <<t.owner[1] \o val(c.owner[1]) \o t.owner[2]>> ELSE <<>>)
       \o (IF Len(c.assignees) > 0
           THEN <<t.assignees[1] \o val(Join(", ", c.assignees)) \o t.assignees[2]>>
           ELSE <<>>)
       \o (IF c.duedate # None THEN <<t.due[1] \o due \o t.due[2]>> ELSE <<>>)
       \o (IF c.archived THEN <<t.archived>> ELSE <<>>)

\* the fragments of plain_output and of markdown_output
TextTemplates ==
    [labels |-> <<"labels: ", "">>, owner |-> <<"owner: ", "">>,
     assignees |-> <<"assignees: ", "">>, due |-> <<"due: ", "">>,
     archived |-> "archived", escape |-> FALSE]

\* class Ansi; ESC stands for the escape character \033
Ansi ==
    [RESET |-> "ESC[0m", BOLD |-> "ESC[1m", DIM |-> "ESC[2m", BLUE |-> "ESC[34m",
     MAGENTA |-> "ESC[35m", YELLOW |-> "ESC[33m", CYAN |-> "ESC[36m", GRAY |-> "ESC[90m"]

\* the emoji of colorize_output and pango_output, by their short names
Emoji ==
    [STACK |-> ":card_index_dividers:", CARD |-> ":memo:", LABEL |-> ":label:",
     OWNER |-> ":bust_in_silhouette:", ASSIGNEES |-> ":busts_in_silhouette:",
     DUE |-> ":date:", ARCH |-> ":package:", TODO |-> ":heavy_check_mark:",
     DONE |-> ":white_check_mark:"]

\* the em dash of markdown_output
EmDash == "--"

\* the fragments of colorize_output
ColorTemplates ==
    [labels |-> <<"  " \o Ansi.MAGENTA \o Emoji.LABEL \o " ", Ansi.RESET>>,
     owner |-> <<"  " \o Ansi.CYAN \o Emoji.OWNER \o " ", Ansi.RESET>>,
     assignees |-> <<"  " \o Ansi.CYAN \o Emoji.ASSIGNEES \o " ", Ansi.RESET>>,
     due |-> <<"  " \o Ansi.YELLOW \o Emoji.DUE \o " ", Ansi.RESET>>,
     archived |-> "  " \o Ansi.DIM \o Emoji.ARCH \o " archived" \o Ansi.RESET,
     escape |-> FALSE]

colorize_output(g, show_owner, datefmt, now, tz) ==
    LET cardLine(c) ==
            "- " \o Ansi.BOLD \o Emoji.CARD \o " " \o CardTitle(c) \o Ansi.RESET
            \o Join("", MetaBits(c, show_owner, format_duedate(c.duedate, datefmt, now, tz),
                                 ColorTemplates))
        blockLines(b) ==
            <<"\n" \o Ansi.BOLD \o Ansi.BLUE \o Emoji.STACK \o " " \o HeaderText(b.stack)
              \o Ansi.RESET>>
            \o (IF Len(b.cards) = 0 THEN <<Ansi.DIM \o "(no cards)" \o Ansi.RESET>>
                ELSE [i \in 1..Len(b.cards) |-> cardLine(b.cards[i])])
    IN Ok(LStrip(Join("\n", Flatten([k \in 1..Len(g) |-> blockLines(g[k])])), {"\n"}))

markdown_output(g, show_owner, datefmt, now, tz) ==
    LET cardLine(c) ==
            LET meta == MetaBits(c, show_owner, format_duedate(c.duedate, datefmt, now, tz),
                                 TextTemplates)
            IN "- **" \o CardTitle(c) \o "**"
               \o (IF Len(meta) > 0 THEN " " \o EmDash \o " _" \o Join("; ", meta) \o "_"
                   ELSE "")
        blockLines(b) ==
            <<"## " \o HeaderText(b.stack)>>
            \o (IF Len(b.cards) = 0 THEN <<"_(no cards)_">>
                ELSE [i \in 1..Len(b.cards) |-> cardLine(b.cards[i])] \o <<"">>)
    IN Ok(Strip(Join("\n", Flatten([k \in 1..Len(g) |-> blockLines(g[k])]))))

\* the fragments of pango_output
PangoTemplates ==
    [labels |-> <<"<span foreground='#a371f7'>" \o Emoji.LABEL \o " ", "</span>">>,
     owner |-> <<"<span foreground='#58a6ff'>" \o Emoji.OWNER \o " ", "</span>">>,
     assignees |-> <<"<span foreground='#58a6ff'>" \o Emoji.ASSIGNEES \o " ", "</span>">>,
     due |-> <<"<span foreground='#d29922'>" \o Emoji.DUE \o " ", "</span>">>,
     archived |-> "<span foreground='#6e7781'>" \o Emoji.ARCH \o " archived</span>",
     escape |-> TRUE]

\* the text pango_output joins when no title lookup fails
PangoText(g, show_owner, datefmt, now, tz) ==
    LET cardLine(st, c) ==
            LET t == pango_escape(CardTitle(c))
                low == Lower(st.title[1])
                meta == MetaBits(c, show_owner,
                                 pango_escape(format_duedate(c.duedate, datefmt, now, tz)),
                                 PangoTemplates)
            IN (IF low = "todo" \/ low = "to do" THEN Emoji.TODO \o "  " \o t
                ELSE IF low = "done"
                THEN Emoji.DONE \o " <span foreground='#888888'>" \o t \o "</span>"
                ELSE Emoji.CARD \o " " \o t)
               \o (IF Len(meta) > 0 THEN "  " \o Join("  ", meta) ELSE "")
        blockLines(b) ==
            <<"<b><u>" \o pango_escape(HeaderText(b.stack)) \o "</u></b>">>
            \o (IF Len(b.cards) = 0 THEN <<"<span foreground='#6e7781'>(no cards)</span>">>
                ELSE [i \in 1..Len(b.cards) |-> cardLine(b.stack, b.cards[i])] \o <<" ">>)
    IN Join("\n", Flatten([k \in 1..Len(g) |-> blockLines(g[k])]))

\* pango_output: st.get("title").lower() is evaluated for every card, and
\* raises AttributeError when the stack has no title
pango_output(g, show_owner, datefmt, now, tz) ==
    IF \E k \in 1..Len(g) : g[k].stack.title = None /\ Len(g[k].cards) > 0
    THEN Raised("AttributeError: 'NoneType' object has no attribute 'lower'")
    ELSE Ok(PangoText(g, show_owner, datefmt, now, tz))

plain_output(g, show_owner, datefmt, now, tz) ==
    LET cardLine(c) ==
            LET bits == MetaBits(c, show_owner, format_duedate(c.duedate, datefmt, now, tz),
                                 TextTemplates)
            IN "- " \o CardTitle(c)
               \o (IF Len(bits) > 0 THEN "  [" \o Join("; ", bits) \o "]" ELSE "")
        blockLines(b) ==
            <<"\n=== " \o HeaderText(b.stack) \o " ===">>
            \o (IF Len(b.cards) = 0 THEN <<"(no cards)">>
                ELSE [i \in 1..Len(b.cards) |-> cardLine(b.cards[i])])
    IN Ok(LStrip(Join("\n", Flatten([k \in 1..Len(g) |-> blockLines(g[k])])), {"\n"}))

API_BASE_SUFFIX == "/index.php/apps/deck/api/v1.1"

-----------------------------------------------------------------------------
(* json.dumps(obj, indent=2, ensure_ascii=False, default=default) *)

JNull == [t |-> "null"]
JInt(n) == [t |-> "int", v |-> n]
JBool(b) == [t |-> "bool", v |-> b]
JStr(str) == [t |-> "str", v |-> str]
JList(items) == [t |-> "list", items |-> items]
JObj(keys, vals) == [t |-> "obj", keys |-> keys, vals |-> vals]

RECURSIVE JsonEscape(_)
\* the body of a JSON string literal
JsonEscape(str) ==
    IF Len(str) = 0 THEN ""
    ELSE (CASE Head(str) = "\"" -> "\\\""
            [] Head(str) = "\\" -> "\\\\"
            [] Head(str) = "\n" -> "\\n"
            [] Head(str) = "\t" -> "\\t"
            [] Head(str) = "\r" -> "\\r"
            [] OTHER -> Head(str))
         \o JsonEscape(Tail(str))

RECURSIVE Spaces(_)
Spaces(n) == IF n = 0 THEN "" ELSE " " \o Spaces(n - 1)

RECURSIVE Dumps(_, _)
\* the text of JSON value v at indentation ind
Dumps(v, ind) ==
    CASE v.t = "null" -> "null"
      [] v.t = "int" -> ToString(v.v)
      [] v.t = "bool" -> (IF v.v THEN "true" ELSE "false")
      [] v.t = "str" -> "\"" \o JsonEscape(v.v) \o "\""
      [] v.t = "list" ->
            IF Len(v.items) = 0 THEN "[]"
            ELSE "[\n"
                 \o Join(",\n", [i \in 1..Len(v.items) |->
                                   Spaces(ind + 2) \o Dumps(v.items[i], ind + 2)])
                 \o "\n" \o Spaces(ind) \o "]"
      [] v.t = "obj" ->
            IF Len(v.keys) = 0 THEN "{}"
            ELSE "{\n"
                 \o Join(",\n", [i \in 1..Len(v.keys) |->
                                   Spaces(ind + 2) \o "\"" \o JsonEscape(v.keys[i]) \o "\": "
                                   \o Dumps(v.vals[i], ind + 2)])
                 \o "\n" \o Spaces(ind) \o "}"

JOptInt(opt) == IF opt = None THEN JNull ELSE JInt(opt[1])
JOptStr(opt) == IF opt = None THEN JNull ELSE JStr(opt[1])
JStrs(seq) == JList([i \in 1..Len(seq) |-> JStr(seq[i])])

\* the JSON branch of main: the dict it dumps, datetimes through default() as
\* their isoformat()
json_output(g, board_id, url) ==
    LET card(c) ==
            JObj(<<"id", "title", "order", "archived", "duedate", "owner", "assignees", "labels">>,
                 <<JOptInt(c.id), JOptStr(c.title), JOptInt(c.order), JBool(c.archived),
                   IF c.duedate = None THEN JNull ELSE JStr(IsoFormat(c.duedate[1])),
                   JOptStr(c.owner), JStrs(c.assignees), JStrs(c.labels)>>)
        block(b) ==
            JObj(<<"stack", "cards">>,
                 <<JObj(<<"id", "title", "order">>,
                        <<JOptInt(b.stack.id), JOptStr(b.stack.title), JOptInt(b.stack.order)>>),
                   JList([i \in 1..Len(b.cards) |-> card(b.cards[i])])>>)
    IN Ok(Dumps(JObj(<<"board_id", "api_base", "stacks">>,
                     <<JInt(board_id), JStr(RStrip(url, {"/"}) \o API_BASE_SUFFIX),
                       JList([k \in 1..Len(g) |-> block(g[k])])>>), 0))

-----------------------------------------------------------------------------
(* main(), from the return of parser.parse_args() on *)

NoResponse == [kind |-> "none"]
NoBody == [kind |-> "none"]
NoCall == [fn |-> "none"]
NoRet == [pending |-> TRUE]

\* what an uncaught exception leaves on standard error
Traceback(e) == "Traceback (most recent call last): " \o e
\* what parser.print_help(sys.stderr) writes
Usage == "usage: nextcloud-deck-cli.py [-h] [--url URL] ..."

\* stacks_url(base, board_id)
stacks_url(base, board_id) ==
    RStrip(base, {"/"}) \o API_BASE_SUFFIX \o "/boards/" \o ToString(board_id) \o "/stacks"

\* the names main lists as missing, without the board id
MissingFields_no_board_id(a) ==
    (IF a.url = "" THEN <<"base URL">> ELSE <<>>)
    \o (IF a.username = "" THEN <<"username">> ELSE <<>>)
    \o (IF a.password = "" THEN <<"app password">> ELSE <<>>)

\* missing = [name for name, ok in [...] if not ok]
MissingFields(a) ==
    (IF a.url = "" THEN <<"base URL">> ELSE <<>>)
    \o (IF a.username = "" THEN <<"username">> ELSE <<>>)
    \o (IF a.password = "" THEN <<"app password">> ELSE <<>>)
    \o (IF a.board_id = 0 THEN <<"board id">> ELSE <<>>)

\* if missing: print, print_help, sys.exit(2)
CheckConfig ==
    /\ pc = "check"
    /\ LET missing == MissingFields(args)
       IN IF Len(missing) > 0
          THEN /\ stderr' = stderr \o <<"Missing: " \o Join(", ", missing), Usage>>
               /\ status' = Some(2)
               /\ pc' = "exit"
          ELSE /\ pc' = "fetch"
               /\ UNCHANGED <<stderr, status>>
    /\ UNCHANGED <<args, requests, response, stacks, grouped, renderer, stdout, call, ret>>

\* fetch_stacks with get_json's r.raise_for_status() left out
fetch_stacks_unchecked(resp) ==
    IF resp.kind = "exception" THEN Raised(resp.cause)
    ELSE IF resp.body.kind = "text"
    THEN Raised("Expecting value: line 1 column 1 (char 0)")
    ELSE IF resp.body.kind = "dict" /\ "ocs" \in DOMAIN resp.body.doc
            /\ "data" \in DOMAIN resp.body.doc.ocs
    THEN Ok(resp.body.doc.ocs.data)
    ELSE Ok(resp.body)

(* fetch_stacks(session, base_url, board_id), given what session.get met:     *)
(* [kind |-> "exception", cause] when the request itself failed (connection,  *)
(* timeout), else [kind |-> "http", status_code, body].  Ok(data), or the     *)
(* requests.RequestException raised: by session.get, by raise_for_status for  *)
(* a status of 400 to 599, or by r.json() for a body that is no JSON          *)
(* (requests.exceptions.JSONDecodeError is a RequestException).               *)
fetch_stacks(resp) ==
    IF resp.kind = "exception" THEN Raised(resp.cause)
    ELSE IF resp.status_code >= 400 /\ resp.status_code < 600
    THEN Raised(ToString(resp.status_code) \o " Error for url")
    ELSE IF resp.body.kind = "text"
    THEN Raised("Expecting value: line 1 column 1 (char 0)")
    ELSE IF resp.body.kind = "dict" /\ "ocs" \in DOMAIN resp.body.doc
            /\ "data" \in DOMAIN resp.body.doc.ocs
    THEN Ok(resp.body.doc.ocs.data)
    ELSE Ok(resp.body)

\* the output section with the pango branch tested before the markdown branch
SelectedRenderer_pango_first(a) ==
    IF a.json THEN "json"
    ELSE IF a.pango THEN "pango"
    ELSE IF a.markdown THEN "markdown"
    ELSE IF a.color THEN "color"
    ELSE "plain"

\* the branch of main's output section that runs
SelectedRenderer(a) ==
    IF a.json THEN "json"
    ELSE IF a.markdown THEN "markdown"
    ELSE IF a.pango THEN "pango"
    ELSE IF a.color THEN "color"
    ELSE "plain"

\* what that branch computes before it prints
Rendering(sel, g, a, now, tz) ==
    CASE sel = "json" -> json_output(g, a.board_id, a.url)
      [] sel = "markdown" -> markdown_output(g, a.show_owner, a.date_format, now, tz)
      [] sel = "pango" -> pango_output(g, a.show_owner, a.date_format, now, tz)
      [] sel = "color" -> colorize_output(g, a.show_owner, a.date_format, now, tz)
      [] sel = "plain" -> plain_output(g, a.show_owner, a.date_format, now, tz)

\* grouped = build_grouped_model(stacks, include_archived=args.include_archived);
\* an exception it raises is not caught: traceback, exit status 1.  (A JSON
\* object in place of the list is iterated by its keys, which are str.)
BuildGroupedModel ==
    /\ pc = "build"
    /\ LET r == IF stacks.kind = "list"
                THEN build_grouped_model(stacks.data, args.include_archived)
                ELSE IF stacks.kind = "dict" /\ DOMAIN stacks.doc = {}
                THEN Ok(<<>>)
                ELSE Raised("AttributeError: 'str' object has no attribute 'get'")
       IN IF IsRaised(r)
          THEN /\ stderr' = Append(stderr, Traceback(r.raised))
               /\ status' = Some(1)
               /\ pc' = "exit"
               /\ UNCHANGED grouped
          ELSE /\ grouped' = r.value
               /\ pc' = "render"
               /\ UNCHANGED <<stderr, status>>
    /\ UNCHANGED <<args, requests, response, stacks, renderer, stdout, call, ret>>

\* the instant datetime.now(timezone.utc) returns
NowInstant ==
    [year |-> 2026, month |-> 11, day |-> 2, hour |-> 12, minute |-> 0, second |-> 0,
     tzinfo |-> Some(0)]
\* the local utc offsets (minutes) of the machines the program runs on
LocalZones == {0 - 300, 0, 120}

\* the output section of main: the first branch whose flag is set computes its
\* text, prints it and returns; an exception while computing it is not caught
Render ==
    /\ pc = "render"
    /\ \E tz \in LocalZones :
         LET sel == SelectedRenderer(args)
             out == Rendering(sel, grouped, args, NowInstant, tz)
         IN /\ renderer' = sel
            /\ IF IsRaised(out)
               THEN /\ stderr' = Append(stderr, Traceback(out.raised))
                    /\ status' = Some(1)
                    /\ UNCHANGED stdout
               ELSE /\ stdout' = Append(stdout, out.value \o "\n")
                    /\ status' = Some(0)
                    /\ UNCHANGED stderr
    /\ pc' = "exit"
    /\ UNCHANGED <<args, requests, response, stacks, grouped, call, ret>>

-----------------------------------------------------------------------------
(* Inputs *)

MaxStacks == 2
MaxCards == 2

RECURSIVE SumSeq(_)
SumSeq(c) == IF Len(c) = 0 THEN 0 ELSE c[1] + SumSeq(Tail(c))

\* the numbers of cards of the stacks of a board: at most maxStacks stacks
\* holding at most maxCards cards together
CountVectors(maxStacks, maxCards) ==
    {c \in UNION {[1..k -> 0..maxCards] : k \in 0..maxStacks} : SumSeq(c) <= maxCards}

\* the dict {k: opt[1]}, or {} when opt is None (the key is absent)
Field(k, opt) == IF opt = None THEN <<>> ELSE (k :> opt[1])

\* a board of Len(c) stacks, stack i with order key so[i] and c[i] cards, the
\* cards numbered through the board, card n of shape flat[n]; with omit, a
\* stack without cards has no "cards" key and a card that is not archived no
\* "archived" key
MakeBoard(c, omit, so, flat) ==
    LET stackOf(i) == ("id" :> 10 * i) @@ ("title" :> "Stack " \o ToString(i))
                      @@ Field("order", so[i])
        cardOf(n) == ("id" :> n) @@ ("title" :> "Card " \o ToString(n))
                     @@ Field("order", flat[n].order)
                     @@ (IF omit /\ ~flat[n].archived THEN <<>>
                         ELSE ("archived" :> flat[n].archived))
    IN [i \in 1..Len(c) |->
           LET off == SumSeq(SubSeq(c, 1, i - 1))
           IN stackOf(i) @@ (IF c[i] = 0 /\ omit THEN <<>>
                             ELSE ("cards" :> [j \in 1..c[i] |-> cardOf(off + j)]))]

DefaultArgs ==
    [url |-> "https://cloud.example.com/", username |-> "alice", password |-> "app-pw",
     board_id |-> 7, include_archived |-> FALSE,
     json |-> FALSE, color |-> FALSE, pango |-> FALSE, markdown |-> FALSE,
     show_owner |-> FALSE, date_format |-> "relative"]

OptOrders == {None, Some(0 - 1), Some(0), Some(1)}
StackOrders == {None, Some(0 - 1)}
CardShapes == [order : OptOrders, archived : BOOLEAN]

\* boards for the normalizer: order keys present or absent, cards archived or
\* not; with omit the server leaves out what is empty or false (the "cards"
\* key of a stack without cards, the "archived" key of a card not archived)
InitNormalizer ==
    /\ \E c \in CountVectors(MaxStacks, MaxCards), omit \in BOOLEAN :
         \E so \in [1..Len(c) -> StackOrders], flat \in [1..SumSeq(c) -> CardShapes] :
            stacks = [kind |-> "list", data |-> MakeBoard(c, omit, so, flat)]
    /\ \E incl \in BOOLEAN : args = [DefaultArgs EXCEPT !.include_archived = incl]
    /\ pc = "build"
    /\ requests = <<>> /\ response = NoResponse /\ grouped = <<>> /\ renderer = "none"
    /\ stdout = <<>> /\ stderr = <<>> /\ status = None
    /\ call = NoCall /\ ret = NoRet

SpecNormalizer == InitNormalizer /\ [][BuildGroupedModel]_vars

\* a direct call format_duedate(dt, style)
FormatDuedate ==
    /\ call.fn = "format_duedate"
    /\ ret = NoRet
    /\ ret' = Ok(format_duedate(call.dt, call.style, call.now, call.tz))
    /\ UNCHANGED <<pc, args, requests, response, stacks, grouped, renderer, stdout, stderr,
                   status, call>>

MaxDays == 800

\* differences target - now, in seconds: whole days up to MaxDays either way,
\* exact, one second and half a day further out
DayDiffs ==
    {sign * (d * SecondsPerDay + s) : sign \in {0 - 1, 1}, d \in 0..MaxDays, s \in {0, 1, 43200}}
\* and whole hours within a day, exact, one second further out and one second
\* short of the next hour
HourDiffs ==
    {sign * (h * SecondsPerHour + s) : sign \in {0 - 1, 1}, h \in 0..23, s \in {0, 1, 3599}}
StyleDiffs == {0 - 400 * SecondsPerDay, 0 - 7200, 0, 43200, 40 * SecondsPerDay}

InitDateFormatter ==
    /\ \/ \E diff \in DayDiffs \cup HourDiffs :
            call = [fn |-> "format_duedate", style |-> "relative", now |-> NowInstant, tz |-> 0,
                    dt |-> Some(FromTimestamp(Timestamp(NowInstant) + diff, 0))]
       \/ \E diff \in StyleDiffs, style \in {"iso", "local", "relative", "short"},
             off \in LocalZones, tz \in LocalZones :
            call = [fn |-> "format_duedate", style |-> style, now |-> NowInstant, tz |-> tz,
                    dt |-> Some(FromTimestamp(Timestamp(NowInstant) + diff, off))]
       \/ \E style \in {"iso", "local", "relative"} :
            call = [fn |-> "format_duedate", style |-> style, now |-> NowInstant, tz |-> 0,
                    dt |-> None]
    /\ ret = NoRet
    /\ pc = "idle" /\ args = DefaultArgs /\ stacks = NoBody
    /\ requests = <<>> /\ response = NoResponse /\ grouped = <<>> /\ renderer = "none"
    /\ stdout = <<>> /\ stderr = <<>> /\ status = None

SpecDateFormatter == InitDateFormatter /\ [][FormatDuedate]_vars

-----------------------------------------------------------------------------
(* One run of main *)

Alice == [displayname |-> "Alice A.", primaryKey |-> "alice"]
Bob == [primaryKey |-> "bob"]
Ghost == [displayname |-> "", primaryKey |-> ""]

\* the boards the server holds in the runs of main
SampleBoards ==
    << <<>>,
       <<[id |-> 10, title |-> "Backlog", order |-> 0]>>,
       <<[id |-> 11, title |-> "To Do", order |-> 2,
          cards |-> <<[id |-> 1, title |-> "Fix <b> & ship", order |-> 1, archived |-> FALSE,
                       duedate |-> "2026-11-03T00:00:00+00:00", owner |-> Alice,
                       assignedUsers |-> <<Bob, Ghost, Alice>>,
                       labels |-> <<[title |-> "bug"], [title |-> ""], [title |-> "ui"]>>],
                      [id |-> 2, title |-> "Write \"docs\"", order |-> 0, archived |-> TRUE,
                       duedate |-> "2025-09-28T12:00:00", owner |-> Bob]>>],
         [id |-> 12, title |-> "Done", order |-> 1,
          cards |-> <<[id |-> 3, title |-> "", archived |-> TRUE, duedate |-> "next week?"]>>]>>,
       <<[id |-> 13, order |-> 0, cards |-> <<[id |-> 4, title |-> "Orphan", order |-> 0]>>],
         [id |-> 14, order |-> 0, cards |-> <<>>]>>,
       <<[id |-> 15, title |-> "", order |-> 5,
          cards |-> <<[id |-> 5, order |-> 3, duedate |-> "2026-11-02T11:00:00Z"]>>]>> >>

\* what session.get can meet
Responses ==
    << [kind |-> "exception", cause |-> "ConnectionError: Max retries exceeded with url"],
       [kind |-> "exception", cause |-> "ReadTimeout: Read timed out. (read timeout=30)"],
       [kind |-> "http", status_code |-> 401,
        body |-> [kind |-> "dict", doc |-> [message |-> "Current user is not logged in"]]],
       [kind |-> "http", status_code |-> 404, body |-> [kind |-> "text"]],
       [kind |-> "http", status_code |-> 500,
        body |-> [kind |-> "list", data |-> SampleBoards[2]]],
       [kind |-> "http", status_code |-> 200, body |-> [kind |-> "text"]],
       [kind |-> "http", status_code |-> 200,
        body |-> [kind |-> "dict", doc |-> [message |-> "maintenance"]]] >>
    \o [k \in 1..Len(SampleBoards) |->
          [kind |-> "http", status_code |-> 200,
           body |-> [kind |-> "list", data |-> SampleBoards[k]]]]
    \o [k \in 1..Len(SampleBoards) |->
          [kind |-> "http", status_code |-> 200,
           body |-> [kind |-> "dict",
                     doc |-> [ocs |-> [data |-> [kind |-> "list", data |-> SampleBoards[k]]]]]]]

\* stacks = fetch_stacks(session, args.url, args.board_id), the one request of
\* the run; a requests.RequestException is reported and ends the run with 1
FetchStacks ==
    /\ pc = "fetch"
    /\ \E i \in 1..Len(Responses) :
         LET r == fetch_stacks(Responses[i])
         IN /\ response' = Responses[i]
            /\ IF IsRaised(r)
               THEN /\ stderr' = Append(stderr, "Error fetching stacks for board "
                                   \o ToString(args.board_id) \o ": " \o r.raised)
                    /\ status' = Some(1)
                    /\ pc' = "exit"
                    /\ UNCHANGED stacks
               ELSE /\ stacks' = r.value
                    /\ pc' = "build"
                    /\ UNCHANGED <<stderr, status>>
    /\ requests' = Append(requests, stacks_url(args.url, args.board_id))
    /\ UNCHANGED <<args, grouped, renderer, stdout, call, ret>>

\* the namespaces parser.parse_args() can return
Init ==
    /\ \E url \in {"", "https://cloud.example.com/"}, username \in {"", "alice"},
          password \in {"", "app-pw"}, board_id \in {0, 7}, include_archived \in BOOLEAN,
          json \in BOOLEAN, color \in BOOLEAN, pango \in BOOLEAN, markdown \in BOOLEAN,
          show_owner \in BOOLEAN, date_format \in {"iso", "local", "relative"} :
         args = [url |-> url, username |-> username, password |-> password,
                 board_id |-> board_id, include_archived |-> include_archived,
                 json |-> json, color |-> color, pango |-> pango, markdown |-> markdown,
                 show_owner |-> show_owner, date_format |-> date_format]
    /\ pc = "check"
    /\ requests = <<>> /\ response = NoResponse /\ stacks = NoBody /\ grouped = <<>>
    /\ renderer = "none" /\ stdout = <<>> /\ stderr = <<>> /\ status = None
    /\ call = NoCall /\ ret = NoRet

Next == CheckConfig \/ FetchStacks \/ BuildGroupedModel \/ Render

Spec == Init /\ [][Next]_vars

-----------------------------------------------------------------------------
(* Due dates: direct calls of parse_duedate and boards whose cards carry them *)

\* raw due dates that are no date, or a date that does not exist
Unparseable ==
    {"next week?", "tomorrow-ish", "2026-13-01T00:00:00", "2026-02-30T08:00:00Z",
     "2026-11-03T24:30:00+00:00"}
\* dates without an offset
Naive == {"2026-11-03T00:00:00", "2028-02-29T23:59:59"}
\* dates with one
Aware == {"2026-11-03T00:00:00Z", "2026-11-03T02:00:00+02:00", "2025-12-31T19:00:00-05:00"}

\* c.get("duedate"): None when the key is absent
RawDueDates == {None, Some("")} \cup {Some(r) : r \in Unparseable \cup Naive \cup Aware}

\* a direct call parse_duedate(raw)
ParseDuedate ==
    /\ call.fn = "parse_duedate"
    /\ ret = NoRet
    /\ ret' = parse_duedate(call.raw)
    /\ UNCHANGED <<pc, args, requests, response, stacks, grouped, renderer, stdout, stderr,
                   status, call>>

MaxDueCards == 2

\* card n of the boards of InitDateParser, its due date apart
DueCard(n) ==
    [id |-> n, title |-> "Card " \o ToString(n), archived |-> FALSE, owner |-> Alice,
     assignedUsers |-> <<Bob>>, labels |-> <<[title |-> "bug"]>>]

InitDateParser ==
    /\ \/ /\ \E raw \in RawDueDates : call = [fn |-> "parse_duedate", raw |-> raw]
          /\ pc = "idle" /\ stacks = NoBody
       \/ /\ \E n \in 1..MaxDueCards : \E due \in [1..n -> RawDueDates] :
                stacks = [kind |-> "list",
                          data |-> <<[id |-> 10, title |-> "To Do", order |-> 0,
                                      cards |-> [i \in 1..n |->
                                                    DueCard(i) @@ Field("duedate", due[i])]]>>]
          /\ pc = "build" /\ call = NoCall
    /\ ret = NoRet /\ args = DefaultArgs
    /\ requests = <<>> /\ response = NoResponse /\ grouped = <<>> /\ renderer = "none"
    /\ stdout = <<>> /\ stderr = <<>> /\ status = None

NextDateParser == ParseDuedate \/ BuildGroupedModel

SpecDateParser == InitDateParser /\ [][NextDateParser]_vars

-----------------------------------------------------------------------------
(* Properties of the normalizer *)

\* the ordering key of a stack or card of the grouped model: an absent order is 0
KeyOf(x) == IF x.order = None THEN 0 ELSE x.order[1]

\* the position in seq of the raw dict whose id is id
RawIndex(seq, id) == CHOOSE p \in 1..Len(seq) : seq[p].id = id[1]

\* out is in non-decreasing key order, equal keys in the order of the raw input
StablyOrdered(out, raw) ==
    \A i, j \in 1..Len(out) :
        i < j => /\ KeyOf(out[i]) <= KeyOf(out[j])
                 /\ KeyOf(out[i]) = KeyOf(out[j])
                      => RawIndex(raw, out[i].id) < RawIndex(raw, out[j].id)

\* the raw stack that block b of the grouped model was made of
RawStackOf(b) == stacks.data[RawIndex(stacks.data, b.stack.id)]

\* C1: build_grouped_model returns every stack, the stacks in non-decreasing
\* order of their order key and the cards of each stack in non-decreasing
\* order of theirs, an absent key counting as 0, and equal keys in the
\* relative order of the input.
C1_SortedStable ==
    pc = "render" =>
        /\ Len(grouped) = Len(stacks.data)
        /\ StablyOrdered([k \in 1..Len(grouped) |-> grouped[k].stack], stacks.data)
        /\ \A k \in 1..Len(grouped) :
              StablyOrdered(grouped[k].cards, GetOr(RawStackOf(grouped[k]), "cards", <<>>))

\* C1 witness: a grouped model whose second stack came first in the input (its
\* absent order key, 0, is above the other's -1), holding two cards of equal
\* key, the first with its order key absent and the second with an explicit 0
C1_Witness ==
    /\ pc = "render"
    /\ Len(grouped) = 2
    /\ grouped[1].stack.order = Some(0 - 1) /\ grouped[2].stack.order = None
    /\ RawIndex(stacks.data, grouped[2].stack.id) = 1
    /\ Len(grouped[2].cards) = 2
    /\ grouped[2].cards[1].order = None
    /\ grouped[2].cards[2].order = Some(0)

\* the ids of the cards of seq, as a set
Ids(seq) == {seq[i].id : i \in 1..Len(seq)}

\* C2: without include_archived no card of the grouped model is archived and
\* every input card that is not archived is in its stack; with it every input
\* card is in its stack, with the archived flag of the input card.
C2_ArchivedFilter ==
    pc = "render" =>
        \A k \in 1..Len(grouped) :
            LET raw == GetOr(RawStackOf(grouped[k]), "cards", <<>>)
                out == grouped[k].cards
                flag(c) == GetOr(c, "archived", FALSE)
            IN /\ Cardinality(Ids(out)) = Len(out)
               /\ \A i \in 1..Len(out) : Some(raw[RawIndex(raw, out[i].id)].id) = out[i].id
               /\ IF args.include_archived
                  THEN /\ Ids(out) = {Some(raw[p].id) : p \in 1..Len(raw)}
                       /\ \A i \in 1..Len(out) :
                             out[i].archived = flag(raw[RawIndex(raw, out[i].id)])
                  ELSE /\ \A i \in 1..Len(out) : ~out[i].archived
                       /\ Ids(out) = {Some(raw[p].id) : p \in {q \in 1..Len(raw) : ~flag(raw[q])}}

\* C2 witness: a stack with an archived and an unarchived card built without
\* include_archived, the archived card gone
C2_WitnessExcluded ==
    /\ pc = "render" /\ ~args.include_archived
    /\ \E k \in 1..Len(grouped) :
          LET raw == GetOr(RawStackOf(grouped[k]), "cards", <<>>)
          IN /\ \E p, q \in 1..Len(raw) :
                   GetOr(raw[p], "archived", FALSE) /\ "archived" \notin DOMAIN raw[q]
             /\ Len(grouped[k].cards) = 1

-----------------------------------------------------------------------------
(* Properties of the date formatter *)

\* a call format_duedate(dt, "relative") on an instant has returned
RelativeReturned ==
    /\ call.fn = "format_duedate" /\ call.style = "relative" /\ call.dt # None
    /\ ret # NoRet

\* target - now of the call, in seconds
CallDiff == Timestamp(call.dt[1]) - Timestamp(call.now)

\* C6: in the relative style an instant at least one day in the past gives
\* "{ceil(|days|/365)} year(s) ago" when days < -365, otherwise
\* "{ceil(|days|/30)} month(s) ago" when days < -30, otherwise
\* "{floor(|days|)} days ago"; 400 days in the past gives "2 year(s) ago".
C6_PastMagnitudes ==
    (RelativeReturned /\ CallDiff <= 0 - SecondsPerDay) =>
        LET mag == 0 - CallDiff
        IN ret.value =
             IF mag > DaysPerYear * SecondsPerDay
             THEN ToString(CeilDiv(mag, DaysPerYear * SecondsPerDay)) \o " year(s) ago"
             ELSE IF mag > DaysPerMonth * SecondsPerDay
             THEN ToString(CeilDiv(mag, DaysPerMonth * SecondsPerDay)) \o " month(s) ago"
             ELSE ToString(FloorDiv(mag, SecondsPerDay)) \o " days ago"

\* C7: in the relative style an instant less than a day away gives
\* "in {H} hour(s)" when it is ahead and "{H} hour(s) ago" when it is now or
\* behind, H the whole hours of the absolute difference.
C7_HoursText ==
    (RelativeReturned /\ Abs(CallDiff) < SecondsPerDay) =>
        LET H == ToString(TruncDiv(Abs(CallDiff), SecondsPerHour))
        IN ret.value = IF CallDiff > 0 THEN "in " \o H \o " hour(s)" ELSE H \o " hour(s) ago"

-----------------------------------------------------------------------------
(* Properties of main *)

\* the configuration values that are missing: empty, or 0 for the board id
MissingNames ==
    {n \in {"base URL", "username", "app password", "board id"} :
        \/ n = "base URL" /\ args.url = ""
        \/ n = "username" /\ args.username = ""
        \/ n = "app password" /\ args.password = ""
        \/ n = "board id" /\ args.board_id = 0}

\* C3: a run with a configuration value missing ends with exit status 2 before
\* any request is issued, its message listing exactly the missing values in the
\* order base URL, username, app password, board id; and exit status 2 is
\* never the end of a run that issued a request.
C3_MissingConfig ==
    /\ (MissingNames # {} /\ pc # "check") =>
          /\ pc = "exit" /\ status = Some(2)
          /\ requests = <<>> /\ response = NoResponse /\ stdout = <<>>
          /\ stderr[1] = "Missing: "
                \o Join(", ", SelectSeq(<<"base URL", "username", "app password", "board id">>,
                                        LAMBDA n : n \in MissingNames))
    /\ status = Some(2) => (MissingNames # {} /\ requests = <<>> /\ response = NoResponse)
    /\ requests # <<>> => MissingNames = {}

\* C3 witness: a run that lacked the username and the board id, and nothing
\* else, has ended
C3_Witness ==
    /\ pc = "exit" /\ status = Some(2)
    /\ MissingNames = {"username", "board id"}
    /\ stderr[1] = "Missing: username, board id"

\* the fetch of the run failed: the request itself, a status that is not 2xx,
\* or a body that is no JSON
FetchFailed ==
    /\ response # NoResponse
    /\ \/ response.kind = "exception"
       \/ response.kind = "http" /\ response.status_code \notin 200..299
       \/ response.kind = "http" /\ response.body.kind = "text"

ByPrecedence ==
    CHOOSE r \in {"json", "markdown", "pango", "color", "plain"} :
        /\ r = "json" <=> args.json
        /\ r = "markdown" <=> (~args.json /\ args.markdown)
        /\ r = "pango" <=> (~args.json /\ ~args.markdown /\ args.pango)
        /\ r = "color" <=> (~args.json /\ ~args.markdown /\ ~args.pango /\ args.color)
        /\ r = "plain" <=> (~args.json /\ ~args.markdown /\ ~args.pango /\ ~args.color)

\* C5: a run that reaches the output section runs exactly one renderer, the
\* first of json, markdown, pango, color whose flag is given and plain exactly
\* when none is, and what it writes is that renderer's output.
C5_RendererPrecedence ==
    /\ renderer = "none" => stdout = <<>>
    /\ renderer # "none" =>
          /\ renderer = ByPrecedence
          /\ (renderer = "plain") <=>
                (~args.json /\ ~args.markdown /\ ~args.pango /\ ~args.color)
          /\ Len(stdout) <= 1
          /\ stdout # <<>> =>
                \E tz \in LocalZones :
                    stdout[1] = Rendering(ByPrecedence, grouped, args, NowInstant, tz).value
                                \o "\n"

\* C5 witness: with --markdown, --pango and --color given the run has written
\* the markdown rendering of a board with cards, which is not its pango one
C5_Witness ==
    /\ pc = "exit" /\ status = Some(0)
    /\ ~args.json /\ args.markdown /\ args.pango /\ args.color
    /\ renderer = "markdown"
    /\ \E k \in 1..Len(grouped) : Len(grouped[k].cards) > 0
    /\ \A tz \in LocalZones :
          LET p == pango_output(grouped, args.show_owner, args.date_format, NowInstant, tz)
          IN IsRaised(p) \/ stdout[1] # p.value \o "\n"

\* C10: each of the four text renderers returns a string for every grouped
\* model build_grouped_model returns, and a stack without a title (absent or
\* empty) that holds a card is rendered under the header text "List {id}".
C10_TextRenderersTotal ==
    (pc = "exit" /\ renderer \in {"plain", "color", "pango", "markdown"}) =>
        /\ status = Some(0)
        /\ Len(stdout) = 1
        /\ \A k \in 1..Len(grouped) :
              (OrElse(grouped[k].stack.title, "") = "" /\ Len(grouped[k].cards) > 0)
                  => Contains(stdout[1], "List " \o PyStr(grouped[k].stack.id))

-----------------------------------------------------------------------------
(* Properties of the due date parser *)

\* the instant a raw due date of Naive or Aware denotes, read off the text
Denoted(r) ==
    CASE r = "2026-11-03T00:00:00" \/ r = "2026-11-03T00:00:00Z" ->
            [year |-> 2026, month |-> 11, day |-> 3, hour |-> 0, minute |-> 0, second |-> 0,
             tzinfo |-> Some(0)]
      [] r = "2028-02-29T23:59:59" ->
            [year |-> 2028, month |-> 2, day |-> 29, hour |-> 23, minute |-> 59, second |-> 59,
             tzinfo |-> Some(0)]
      [] r = "2026-11-03T02:00:00+02:00" ->
            [year |-> 2026, month |-> 11, day |-> 3, hour |-> 2, minute |-> 0, second |-> 0,
             tzinfo |-> Some(120)]
      [] r = "2025-12-31T19:00:00-05:00" ->
            [year |-> 2025, month |-> 12, day |-> 31, hour |-> 19, minute |-> 0, second |-> 0,
             tzinfo |-> Some(0 - 300)]

\* what the claim has parse_duedate return for raw
ExpectedDue(raw) ==
    IF raw = None \/ raw = Some("") \/ raw[1] \in Unparseable THEN None
    ELSE Some(Denoted(raw[1]))

\* C9: parse_duedate raises for no raw due date: it returns None when the
\* value is absent, empty or cannot be parsed and otherwise an aware instant,
\* UTC when the text has no offset; and build_grouped_model ends normally on a
\* board with such cards, each card in the model with its other fields as in
\* the input and duedate None where the raw value cannot be parsed.
C9_ParseNeverRaises ==
    /\ (call.fn = "parse_duedate" /\ ret # NoRet) =>
          /\ ~IsRaised(ret)
          /\ ret.value = ExpectedDue(call.raw)
          /\ ret.value # None => ret.value[1].tzinfo # None
    /\ (stacks # NoBody /\ pc # "build") =>
          /\ pc = "render" /\ status = None /\ stderr = <<>>
          /\ Len(grouped) = 1
          /\ Len(grouped[1].cards) = Len(stacks.data[1].cards)
          /\ \A i \in 1..Len(grouped[1].cards) :
                grouped[1].cards[i] =
                    [id |-> Some(i), title |-> Some("Card " \o ToString(i)), order |-> None,
                     archived |-> FALSE,
                     duedate |-> ExpectedDue(Get(stacks.data[1].cards[i], "duedate")),
                     owner |-> Some("Alice A."), assignees |-> <<"bob">>, labels |-> <<"bug">>]

\* C9 witness: a board whose first card has a due date that is no date and
\* whose second card has one without an offset has been normalized
C9_Witness ==
    /\ pc = "render" /\ stacks # NoBody
    /\ Len(grouped[1].cards) = 2
    /\ Get(stacks.data[1].cards[1], "duedate") = Some("next week?")
    /\ grouped[1].cards[1].duedate = None
    /\ Get(stacks.data[1].cards[2], "duedate") = Some("2026-11-03T00:00:00")
    /\ grouped[1].cards[2].duedate # None
    /\ grouped[1].cards[2].duedate[1].tzinfo = Some(0)

====
